---- MODULE Spec2Model ----
(***************************************************************************)
(* Model of fisher.py (fisher_accept, fisher_accept2) and chisq.py         *)
(* (chisq_1, chisq_2, chisq_3).                                            *)
(*                                                                         *)
(* Arithmetic is exact.  A point mass of the hypergeometric distribution   *)
(* with parameters (N, G, n) is kept as its integer weight                 *)
(* C(G,k) * C(N-G,n-k); the common denominator C(N,n) is kept in `den`.    *)
(* The level alpha is the rational alpha / AlphaDen.  p_J and p_tail are   *)
(* weights over `den` as well, so every comparison of the code becomes a   *)
(* comparison of integers.  A value the supplier cannot compute is NaN,    *)
(* with the comparison rules of IEEE floats (every comparison is false).   *)
(***************************************************************************)
EXTENDS Integers, Sequences, FiniteSets, TLC

VARIABLES fn, N, G, n, alpha, pc, pmf, den, posout, bottom, top, J, p_J,
          p_tail, gamma, err, iters, removed,
          cx, cy, cpc, r1, r2, r3

fvars == <<fn, N, G, n, alpha, pc, pmf, den, posout, bottom, top, J, p_J,
           p_tail, gamma, err, iters, removed>>
cvars == <<cx, cy, cpc, r1, r2, r3>>
vars == <<fvars, cvars>>

\* ------------------------------------------------------------ bounds
\* largest population size drawn
MaxN == 10
\* alpha is a multiple of 1 / AlphaDen
AlphaDen == 20
\* longest sample drawn for the chi-square functions
MaxLen == 3
\* the samples hold values 1..MaxVal
MaxVal == 2
\* numerators of the levels drawn: 0 and below-1 levels, 1 and one above 1
AlphaNums == {0, 1, 5, 10, 15, AlphaDen - 1, AlphaDen, AlphaDen + 5}

\* ------------------------------------------------------------ helpers
NaN == 0 - 1
IsNaN(v) == v = NaN
\* float comparison a < b: false when either side is nan
Lt(a, b) == ~IsNaN(a) /\ ~IsNaN(b) /\ a < b
\* float addition: nan absorbs
Add(a, b) == IF IsNaN(a) \/ IsNaN(b) THEN NaN ELSE a + b

SeqSet(s) == {s[i] : i \in 1..Len(s)}

RECURSIVE Choose(_, _)
Choose(m, k) ==
  IF k < 0 \/ k > m THEN 0
  ELSE IF k = 0 THEN 1
  ELSE (Choose(m - 1, k - 1) * m) \div k

\* the arguments hypergeom accepts: a population of at least one item, with
\* 0 <= G <= N and 0 <= n <= N; for any other it returns nan
InSupport(pN, pG, pn) ==
  pN > 0 /\ pG >= 0 /\ pn >= 0 /\ pG <= pN /\ pn <= pN

\* hypergeom.pmf(x, N, G, n) for x = 0..n, as weights over Denominator
Pmf(pN, pG, pn) ==
  [k \in 0..pn |->
     IF InSupport(pN, pG, pn)
     THEN Choose(pG, k) * Choose(pN - pG, pn - k)
     ELSE NaN]

Denominator(pN, pG, pn) ==
  IF InSupport(pN, pG, pn) THEN Choose(pN, pn) ELSE 1

\* np.arange(0, n): the last outcome is left out
ArangeShort(pn) == [i \in 1..(IF pn >= 1 THEN pn ELSE 0) |-> i - 1]

\* np.arange(0, n+1) as a list
Arange(pn) == [i \in 1..(IF pn >= 0 THEN pn + 1 ELSE 0) |-> i - 1]

\* numpy indexing pmf[i] of an array of length len: the position read, or
\* NaN - 1 (no position) when the index is out of bounds
NoIndex == NaN - 1
Index(i, len) ==
  IF 0 <= i /\ i < len THEN i
  ELSE IF i < 0 /\ 0 - len <= i THEN i + len
  ELSE NoIndex

\* while p_tail <= alpha
LoopCondLe(ptail, a, d) == ~IsNaN(ptail) /\ ptail * AlphaDen <= a * d

\* while p_tail < alpha
LoopCond(ptail, a, d) == ~IsNaN(ptail) /\ ptail * AlphaDen < a * d

\* the tie branch sets p_J = pb, not pb + pt
SelectNoSum(pb, pt, b, t) ==
  IF Lt(pb, pt) THEN [J |-> <<b>>, p_J |-> pb, bottom |-> b + 1, top |-> t]
  ELSE IF Lt(pt, pb) THEN [J |-> <<t>>, p_J |-> pt, bottom |-> b, top |-> t - 1]
  ELSE IF b < t
       THEN [J |-> <<b, t>>, p_J |-> pb, bottom |-> b + 1, top |-> t - 1]
       ELSE [J |-> <<b>>, p_J |-> pb, bottom |-> b + 1, top |-> t]

\* the first test is pb <= pt: a tie takes the bottom outcome alone
SelectLe(pb, pt, b, t) ==
  IF ~IsNaN(pb) /\ ~IsNaN(pt) /\ pb <= pt
  THEN [J |-> <<b>>, p_J |-> pb, bottom |-> b + 1, top |-> t]
  ELSE IF Lt(pt, pb) THEN [J |-> <<t>>, p_J |-> pt, bottom |-> b, top |-> t - 1]
  ELSE IF b < t
       THEN [J |-> <<b, t>>, p_J |-> Add(pb, pt), bottom |-> b + 1, top |-> t - 1]
       ELSE [J |-> <<b>>, p_J |-> pb, bottom |-> b + 1, top |-> t]

\* the tie branch leaves top where it is
SelectNoTop(pb, pt, b, t) ==
  IF Lt(pb, pt) THEN [J |-> <<b>>, p_J |-> pb, bottom |-> b + 1, top |-> t]
  ELSE IF Lt(pt, pb) THEN [J |-> <<t>>, p_J |-> pt, bottom |-> b, top |-> t - 1]
  ELSE IF b < t
       THEN [J |-> <<b, t>>, p_J |-> Add(pb, pt), bottom |-> b + 1, top |-> t]
       ELSE [J |-> <<b>>, p_J |-> pb, bottom |-> b + 1, top |-> t]

\* the tie branch tests bottom <= top: a last outcome is taken twice
SelectTieLe(pb, pt, b, t) ==
  IF Lt(pb, pt) THEN [J |-> <<b>>, p_J |-> pb, bottom |-> b + 1, top |-> t]
  ELSE IF Lt(pt, pb) THEN [J |-> <<t>>, p_J |-> pt, bottom |-> b, top |-> t - 1]
  ELSE IF b <= t
       THEN [J |-> <<b, t>>, p_J |-> Add(pb, pt), bottom |-> b + 1, top |-> t - 1]
       ELSE [J |-> <<b>>, p_J |-> pb, bottom |-> b + 1, top |-> t]

\* the if / elif / else of one iteration
Select(pb, pt, b, t) ==
  IF Lt(pb, pt) THEN [J |-> <<b>>, p_J |-> pb, bottom |-> b + 1, top |-> t]
  ELSE IF Lt(pt, pb) THEN [J |-> <<t>>, p_J |-> pt, bottom |-> b, top |-> t - 1]
  ELSE IF b < t
       THEN [J |-> <<b, t>>, p_J |-> Add(pb, pt), bottom |-> b + 1, top |-> t - 1]
       ELSE [J |-> <<b>>, p_J |-> pb, bottom |-> b + 1, top |-> t]

\* p_tail = p_J
AccumulateAssign(ptail, pj) == pj

\* p_tail += p_J
Accumulate(ptail, pj) == Add(ptail, pj)

\* list.remove(j): drops the first occurrence of j
FirstAt(s, j) == CHOOSE i \in 1..Len(s) : s[i] = j /\ \A k \in 1..(i - 1) : s[k] # j
Remove(s, j) ==
  LET i == FirstAt(s, j)
  IN  [k \in 1..(Len(s) - 1) |-> IF k < i THEN s[k] ELSE s[k + 1]]

\* for j in J: posout.remove(j); defined when CanRemoveAll
RECURSIVE RemoveAll(_, _)
RemoveAll(s, js) ==
  IF js = <<>> THEN s ELSE RemoveAll(Remove(s, Head(js)), Tail(js))

RECURSIVE CanRemoveAll(_, _)
CanRemoveAll(s, js) ==
  IF js = <<>> THEN TRUE
  ELSE Head(js) \in SeqSet(s) /\ CanRemoveAll(Remove(s, Head(js)), Tail(js))

\* gamma = (p_tail - alpha) / p_tail
GammaOverTail(ptail, a, pj, d) ==
  IF IsNaN(ptail) \/ IsNaN(pj) THEN [kind |-> "nan", num |-> 0, dn |-> 1]
  ELSE IF ptail = 0
       THEN [kind |-> "nan", num |-> 0, dn |-> 1]
       ELSE [kind |-> "num", num |-> ptail * AlphaDen - a * d,
             dn |-> AlphaDen * ptail]

\* gamma before the return
NoGamma == [kind |-> "none", num |-> 0, dn |-> 1]
\* gamma = (p_tail - alpha) / p_J as the fraction num / dn (dn > 0), or nan
Gamma(ptail, a, pj, d) ==
  IF IsNaN(ptail) \/ IsNaN(pj) THEN [kind |-> "nan", num |-> 0, dn |-> 1]
  ELSE IF pj = 0
       THEN [kind |-> IF ptail * AlphaDen = a * d THEN "nan" ELSE "inf",
             num |-> 0, dn |-> 1]
       ELSE [kind |-> "num", num |-> ptail * AlphaDen - a * d,
             dn |-> AlphaDen * pj]

\* the asserts of fisher_accept2
Asserts(pN, pG, pn) == pN > pn /\ pN > pG

\* the loop's locals
Cur ==
  [posout |-> posout, bottom |-> bottom, top |-> top, J |-> J, p_J |-> p_J,
   p_tail |-> p_tail]

\* the locals when the loop is entered
Entry(pn) ==
  [posout |-> Arange(pn), bottom |-> 0, top |-> pn, J |-> <<>>, p_J |-> 0,
   p_tail |-> 0]

PmfLen(f) == Cardinality(DOMAIN f)

\* ------------------------------------------------------------ fisher run
\* a chi-square result not yet computed
NoResult == [kind |-> "none", num |-> 0, dn |-> 1]

ChisqIdle ==
  /\ cx = <<>> /\ cy = <<>> /\ cpc = "idle"
  /\ r1 = NoResult /\ r2 = NoResult /\ r3 = NoResult

Locals0 ==
  /\ pmf = <<>> /\ den = 1 /\ posout = <<>> /\ bottom = 0 /\ top = 0
  /\ J = <<>> /\ p_J = 0 /\ p_tail = 0 /\ gamma = NoGamma /\ err = "none"
  /\ iters = 0 /\ removed = <<>>

Init ==
  /\ fn \in {"fisher_accept", "fisher_accept2"}
  /\ N \in (0 - 1)..MaxN
  /\ G \in (0 - 1)..(N + 1)
  /\ n \in (0 - 1)..(N + 1)
  /\ alpha \in AlphaNums
  /\ pc = "entry"
  /\ Locals0
  /\ ChisqIdle

\* fisher_accept2: an assert fails
AssertFail ==
  /\ pc = "entry" /\ fn = "fisher_accept2" /\ ~Asserts(N, G, n)
  /\ pc' = "failed" /\ err' = "AssertionError"
  /\ UNCHANGED <<fn, N, G, n, alpha, pmf, den, posout, bottom, top, J, p_J,
                 p_tail, gamma, iters, removed, cvars>>

\* the statements before the loop
Setup ==
  /\ pc = "entry"
  /\ fn = "fisher_accept2" => Asserts(N, G, n)
  /\ posout' = Entry(n).posout
  /\ pmf' = Pmf(N, G, n)
  /\ den' = Denominator(N, G, n)
  /\ bottom' = Entry(n).bottom
  /\ top' = Entry(n).top
  /\ J' = Entry(n).J
  /\ p_J' = Entry(n).p_J
  /\ p_tail' = Entry(n).p_tail
  /\ pc' = "loop"
  /\ UNCHANGED <<fn, N, G, n, alpha, gamma, err, iters, removed, cvars>>

\* pb, pt and the branch taken by the iteration that starts in st
SelectIn(st, f) ==
  Select(f[Index(st.bottom, PmfLen(f))], f[Index(st.top, PmfLen(f))],
         st.bottom, st.top)

\* what the loop body raises when it starts in st, "none" if nothing
RaisesIn(st, f) ==
  IF Index(st.bottom, PmfLen(f)) = NoIndex \/ Index(st.top, PmfLen(f)) = NoIndex
  THEN "IndexError"
  ELSE IF ~CanRemoveAll(st.posout, SelectIn(st, f).J) THEN "ValueError"
  ELSE "none"

\* the locals after one iteration of the loop body
Body(st, f) ==
  LET sel == SelectIn(st, f)
  IN  [posout |-> RemoveAll(st.posout, sel.J),
       bottom |-> sel.bottom,
       top |-> sel.top,
       J |-> sel.J,
       p_J |-> sel.p_J,
       p_tail |-> Accumulate(st.p_tail, sel.p_J)]

\* one iteration of the while loop
LoopStep ==
  /\ pc = "loop" /\ LoopCond(p_tail, alpha, den) /\ RaisesIn(Cur, pmf) = "none"
  /\ LET nxt == Body(Cur, pmf)
     IN  /\ J' = nxt.J
         /\ p_J' = nxt.p_J
         /\ bottom' = nxt.bottom
         /\ top' = nxt.top
         /\ p_tail' = nxt.p_tail
         /\ posout' = nxt.posout
         /\ removed' = removed \o nxt.J
  /\ iters' = iters + 1
  /\ UNCHANGED <<fn, N, G, n, alpha, pc, pmf, den, gamma, err, cvars>>

\* an iteration that raises
LoopRaise ==
  /\ pc = "loop" /\ LoopCond(p_tail, alpha, den) /\ RaisesIn(Cur, pmf) # "none"
  /\ pc' = "failed" /\ err' = RaisesIn(Cur, pmf)
  /\ UNCHANGED <<fn, N, G, n, alpha, pmf, den, posout, bottom, top, J, p_J,
                 p_tail, gamma, iters, removed, cvars>>

\* the loop has exited: gamma and the return.  With no iteration run p_J is
\* the int 0 and the division raises; after one it is a numpy float.
Return ==
  /\ pc = "loop" /\ ~LoopCond(p_tail, alpha, den)
  /\ IF iters = 0
     THEN pc' = "failed" /\ err' = "ZeroDivisionError" /\ gamma' = gamma
     ELSE pc' = "done" /\ err' = err /\ gamma' = Gamma(p_tail, alpha, p_J, den)
  /\ UNCHANGED <<fn, N, G, n, alpha, pmf, den, posout, bottom, top, J, p_J,
                 p_tail, iters, removed, cvars>>

Next == AssertFail \/ Setup \/ LoopStep \/ LoopRaise \/ Return

Spec == Init /\ [][Next]_vars

\* ------------------------------------------------------------ chisq.py
Abs(v) == IF v < 0 THEN 0 - v ELSE v

RECURSIVE GCD(_, _)
GCD(a, b) == IF b = 0 THEN a ELSE GCD(b, a % b)

\* the float a / b (b > 0) as a fraction in lowest terms
Frac(a, b) == LET g == GCD(Abs(a), b) IN [num |-> a \div g, dn |-> b \div g]
FAdd(p, q) == Frac(p.num * q.dn + q.num * p.dn, p.dn * q.dn)
FSub(p, q) == Frac(p.num * q.dn - q.num * p.dn, p.dn * q.dn)
FMul(p, q) == Frac(p.num * q.num, p.dn * q.dn)
\* p / q for q > 0
FDiv(p, q) == Frac(p.num * q.dn, p.dn * q.num)

\* list.count(v)
Count(s, v) == Cardinality({i \in 1..Len(s) : s[i] = v})

\* np.unique: the distinct values in ascending order
RECURSIVE SortSet(_)
SortSet(S) ==
  IF S = {} THEN <<>>
  ELSE LET v == CHOOSE w \in S : \A o \in S : w <= o
       IN  <<v>> \o SortSet(S \ {v})

\* chisq_3's u: for i in z: if i not in u: u += [i]
RECURSIVE Dedup(_, _)
Dedup(u, rest) ==
  IF rest = <<>> THEN u
  ELSE Dedup(IF Head(rest) \in SeqSet(u) THEN u ELSE Append(u, Head(rest)),
             Tail(rest))

\* E_k: n * (count of the value in z / (m + n)), for each value of u
Expected(u, z, n1, tot) ==
  [i \in 1..Len(u) |-> FMul(Frac(n1, 1), Frac(Count(z, u[i]), tot))]

\* O_k: the count of each value of u in x
Observed(u, x) == [i \in 1..Len(u) |-> Count(x, u[i])]

\* (O - E)**2 / E for E > 0
Term(o, e) == LET dlt == FSub(Frac(o, 1), e) IN FDiv(FMul(dlt, dlt), e)

\* the sum of the terms i.. of the table, left to right
RECURSIVE SumFrom(_, _, _)
SumFrom(O, E, i) ==
  IF i > Len(O) THEN Frac(0, 1)
  ELSE FAdd(Term(O[i], E[i]), SumFrom(O, E, i + 1))

\* np.nansum of the terms i..: a term 0/0 is nan and is left out
RECURSIVE NanSumFrom(_, _, _)
NanSumFrom(O, E, i) ==
  IF i > Len(O) THEN Frac(0, 1)
  ELSE IF E[i].num = 0 THEN NanSumFrom(O, E, i + 1)
  ELSE FAdd(Term(O[i], E[i]), NanSumFrom(O, E, i + 1))

Ok(v) == [kind |-> "ok", num |-> v.num, dn |-> v.dn]
Raised(e) == [kind |-> e, num |-> 0, dn |-> 1]

chisq_1(x, y) ==
  LET n1 == Len(x)
      m == Len(y)
      z == x \o y
      u == SortSet(SeqSet(z))
      E_k == Expected(u, z, n1, m + n1)
      O_k == Observed(u, x)
  IN  IF \E i \in 1..Len(u) : E_k[i].num = 0
      THEN Raised("ZeroDivisionError")
      ELSE Ok(SumFrom(O_k, E_k, 1))

chisq_2(x, y) ==
  LET n1 == Len(x)
      m == Len(y)
      z == x \o y
      u == SortSet(SeqSet(z))
      E_k == Expected(u, z, n1, n1 + m)
      O_k == Observed(u, x)
  IN  IF \E i \in 1..Len(u) : E_k[i].num = 0 /\ O_k[i] # 0
      THEN Raised("inf")
      ELSE Ok(NanSumFrom(O_k, E_k, 1))

chisq_3(x, y) ==
  LET n1 == Len(x)
      m == Len(y)
      z == x \o y
  IN  IF z = <<>> THEN Raised("IndexError")
      ELSE LET u == Dedup(<<z[1]>>, z)
               E_k == Expected(u, z, n1, n1 + m)
               O_k == Observed(u, x)
           IN  IF \E i \in 1..Len(u) : E_k[i].num = 0
               THEN Raised("ZeroDivisionError")
               ELSE Ok(SumFrom(O_k, E_k, 1))

\* the samples drawn
Samples == UNION {[1..k -> 1..MaxVal] : k \in 0..MaxLen}

FisherIdle ==
  /\ fn = "none" /\ N = 0 /\ G = 0 /\ n = 0 /\ alpha = 1 /\ pc = "idle"
  /\ Locals0

ChisqInit ==
  /\ cx \in Samples /\ cy \in Samples /\ cpc = "run"
  /\ r1 = NoResult /\ r2 = NoResult /\ r3 = NoResult
  /\ FisherIdle

Chisq1 ==
  /\ cpc = "run" /\ r1 = NoResult
  /\ r1' = chisq_1(cx, cy)
  /\ UNCHANGED <<cx, cy, cpc, r2, r3, fvars>>

Chisq2 ==
  /\ cpc = "run" /\ r2 = NoResult
  /\ r2' = chisq_2(cx, cy)
  /\ UNCHANGED <<cx, cy, cpc, r1, r3, fvars>>

Chisq3 ==
  /\ cpc = "run" /\ r3 = NoResult
  /\ r3' = chisq_3(cx, cy)
  /\ UNCHANGED <<cx, cy, cpc, r1, r2, fvars>>

ChisqNext == Chisq1 \/ Chisq2 \/ Chisq3

ChisqSpec == ChisqInit /\ [][ChisqNext]_vars

\* ------------------------------------------------------------ the run as a function
\* fisher_accept's loop run to its end from st: the locals it ends with and
\* what it raised
RECURSIVE Run(_, _, _, _)
Run(st, f, a, d) ==
  IF ~LoopCond(st.p_tail, a, d) THEN [res |-> st, err |-> "none"]
  ELSE IF RaisesIn(st, f) # "none" THEN [res |-> st, err |-> RaisesIn(st, f)]
  ELSE Run(Body(st, f), f, a, d)

\* the run of fisher_accept(N, G, n, a / AlphaDen) for the level a
RunAt(a) == Run(Entry(n), Pmf(N, G, n), a, Denominator(N, G, n))

\* ------------------------------------------------------------ claims
\* the preconditions of the builder
Valid ==
  /\ N >= 0 /\ G >= 0 /\ n >= 0 /\ n <= N /\ G <= N
  /\ 0 < alpha /\ alpha < AlphaDen

ValidLevels == {a \in AlphaNums : 0 < a /\ a < AlphaDen}

RECURSIVE Mass(_)
\* the weight of a list of outcomes
Mass(s) == IF s = <<>> THEN 0 ELSE pmf[Head(s)] + Mass(Tail(s))

NoDup(s) == \A i, j \in 1..Len(s) : s[i] = s[j] => i = j
Ascending(s) == \A i, j \in 1..Len(s) : i < j => s[i] < s[j]
MinOf(S) == CHOOSE v \in S : \A w \in S : v <= w
MaxOf(S) == CHOOSE v \in S : \A w \in S : w <= v
RemovedBefore == SubSeq(removed, 1, Len(removed) - Len(J))
Returned == Valid /\ pc = "done"
\* a valid input with a population of at least one item, for which the
\* supplier returns point masses
Populated == Valid /\ N >= 1
ReturnedPopulated == Populated /\ pc = "done"

\* C1 as stated, on the inputs with N >= 1: mass(I) + (1 - gamma) * mass(J)
\* = 1 - alpha, i.e. gamma is the probability of rejecting on J.
C1_Original ==
  ReturnedPopulated =>
    /\ gamma.kind = "num"
    /\ Mass(posout) * gamma.dn * AlphaDen
         + (gamma.dn - gamma.num) * Mass(J) * AlphaDen
       = (AlphaDen - alpha) * den * gamma.dn

\* C1 amended: for N >= 1, mass(I) + gamma * mass(J) = 1 - alpha in exact
\* arithmetic: the test that rejects outside I u J, accepts with probability
\* gamma on J and never rejects on I has rejection probability exactly alpha.
C1_ExactLevel ==
  ReturnedPopulated =>
    /\ gamma.kind = "num"
    /\ Mass(posout) * gamma.dn * AlphaDen + gamma.num * Mass(J) * AlphaDen
       = (AlphaDen - alpha) * den * gamma.dn

\* fisher_accept(N=10, G=2, n=5, alpha=1/20) has returned ([1], [0, 2], 71/80)
C1_Witness ==
  /\ Returned /\ fn = "fisher_accept"
  /\ N = 10 /\ G = 2 /\ n = 5 /\ alpha * 20 = AlphaDen
  /\ posout = <<1>> /\ J = <<0, 2>>
  /\ gamma.kind = "num" /\ gamma.num * 80 = 71 * gamma.dn

\* C2 as stated, on the inputs with N >= 1: with a non-zero final p_J,
\* 0 < gamma <= 1.
C2_Original ==
  (ReturnedPopulated /\ p_J # 0) =>
    gamma.kind = "num" /\ 0 < gamma.num /\ gamma.num <= gamma.dn

\* C2 amended: for N >= 1 and a non-zero final p_J, 0 <= gamma < 1 in exact
\* arithmetic.
C2_GammaRange ==
  (ReturnedPopulated /\ p_J # 0) =>
    gamma.kind = "num" /\ 0 <= gamma.num /\ gamma.num < gamma.dn

\* a run has returned gamma = 0: p_tail met alpha exactly
C2_Witness ==
  Returned /\ p_J # 0 /\ gamma.kind = "num" /\ gamma.num = 0 /\ iters > 1

\* C3: fisher_accept2 fails with its domain error (the AssertionError of its
\* asserts), before any computation, if and only if the input violates a
\* precondition.
C3_DomainError ==
  (fn = "fisher_accept2" /\ pc # "entry") =>
    ((pc = "failed" /\ err = "AssertionError" /\ pmf = <<>>) <=> ~Valid)

\* C4: the returned I and J are disjoint, lie in 0..n, and I, J and the
\* outcomes removed before the final iteration partition 0..n, no outcome
\* being removed twice.
C4_Partition ==
  Returned =>
    /\ SeqSet(posout) \cap SeqSet(J) = {}
    /\ SeqSet(posout) \cup SeqSet(J) \subseteq 0..n
    /\ SeqSet(posout) \cup SeqSet(J) \cup SeqSet(RemovedBefore) = 0..n
    /\ SeqSet(posout) \cap SeqSet(RemovedBefore) = {}
    /\ SeqSet(J) \cap SeqSet(RemovedBefore) = {}
    /\ NoDup(removed) /\ NoDup(posout) /\ NoDup(J)
    /\ removed = RemovedBefore \o J

\* a run has returned with all three parts non-empty and a two-element J
C4_Witness ==
  Returned /\ posout # <<>> /\ RemovedBefore # <<>> /\ Len(J) = 2

\* C5: on valid input the loop makes at most n+1 iterations, each removing at
\* least one outcome, and is over after the (n+1)-th; with n = 1 and
\* alpha = 1/2 it makes at most 2.
C5_Terminates ==
  (Valid /\ pc \in {"loop", "done"}) =>
    /\ iters <= n + 1
    /\ Len(posout) + iters <= n + 1
    /\ (pc = "loop" /\ iters = n + 1) => ~LoopCond(p_tail, alpha, den)
    /\ (n = 1 /\ 2 * alpha = AlphaDen) => iters <= 2

\* a run of n+1 iterations, n >= 2, has returned
C5_Witness == Returned /\ n >= 2 /\ iters = n + 1

\* C6 as stated: for valid levels alpha < a2 the run at a2 returns and
\* I(alpha) is a subset of I(a2).
C6_Original ==
  Returned =>
    \A a2 \in ValidLevels :
      alpha < a2 =>
        /\ RunAt(a2).err = "none"
        /\ SeqSet(posout) \subseteq SeqSet(RunAt(a2).res.posout)

\* C6 amended: for valid levels alpha < a2 the run at a2 returns and I(a2) is
\* a subset of I(alpha): raising alpha can only shrink I.
C6_Monotone ==
  Returned =>
    \A a2 \in ValidLevels :
      alpha < a2 =>
        /\ RunAt(a2).err = "none"
        /\ SeqSet(RunAt(a2).res.posout) \subseteq SeqSet(posout)

\* a run has returned whose I is strictly larger than that of a higher level
C6_Witness ==
  /\ Returned
  /\ \E a2 \in ValidLevels :
       /\ alpha < a2
       /\ SeqSet(RunAt(a2).res.posout) # SeqSet(posout)
       /\ RunAt(a2).res.posout # <<>>

\* the chi-square value of the claim: the sum over the distinct values u of
\* x + y of (O_u - E_u)^2 / E_u, with E_u = len(x) * count / (len(x) + len(y))
RECURSIVE ChiOver(_, _, _)
ChiOver(S, x, y) ==
  IF S = {} THEN Frac(0, 1)
  ELSE LET v == CHOOSE w \in S : TRUE
           tot == Len(x) + Len(y)
           c == Count(x \o y, v)
           o == Count(x, v)
       IN  FAdd(Frac((o * tot - Len(x) * c) * (o * tot - Len(x) * c),
                     tot * Len(x) * c),
                ChiOver(S \ {v}, x, y))

AllComputed == r1 # NoResult /\ r2 # NoResult /\ r3 # NoResult

\* C7: for every pair of samples chisq_1, chisq_2 and chisq_3 return the same
\* value, the chi-square sum of the claim; none fails or differs where
\* another returns a result.
C7_SameValue ==
  (AllComputed /\ (r1.kind = "ok" \/ r2.kind = "ok" \/ r3.kind = "ok")) =>
    /\ r1 = r2 /\ r2 = r3
    /\ r1 = Ok(ChiOver(SeqSet(cx \o cy), cx, cy))

\* C8: each iteration selects [bottom] if pb < pt, [top] if pb > pt,
\* [bottom, top] with p_J = pb + pt and both endpoints moved if pb = pt and
\* bottom < top, [bottom] if pb = pt and bottom = top; J has 1 or 2 ascending
\* elements, each the smallest or largest outcome not yet removed; and
\* N=10, G=2, n=5, alpha=1/20 returns I = [1], J = [0, 2].
C8_TieBreak ==
  [][ Valid =>
      /\ (iters' = iters + 1) =>
           LET pb == pmf[bottom]
               pt == pmf[top]
           IN  /\ pb < pt =>
                    /\ J' = <<bottom>> /\ p_J' = pb
                    /\ bottom' = bottom + 1 /\ top' = top
               /\ pb > pt =>
                    /\ J' = <<top>> /\ p_J' = pt
                    /\ bottom' = bottom /\ top' = top - 1
               /\ (pb = pt /\ bottom < top) =>
                    /\ J' = <<bottom, top>> /\ p_J' = pb + pt
                    /\ bottom' = bottom + 1 /\ top' = top - 1
               /\ (pb = pt /\ bottom = top) =>
                    /\ J' = <<bottom>> /\ p_J' = pb
                    /\ bottom' = bottom + 1 /\ top' = top
               /\ Len(J') \in {1, 2} /\ Ascending(J')
               /\ \A j \in SeqSet(J') :
                    j = MinOf(SeqSet(posout)) \/ j = MaxOf(SeqSet(posout))
      /\ (pc' = "done" /\ N = 10 /\ G = 2 /\ n = 5 /\ alpha * 20 = AlphaDen) =>
           posout' = <<1>> /\ J' = <<0, 2>>
    ]_vars

\* an iteration has taken both endpoints of a range of more than two outcomes
\* after an earlier iteration took one
C8_Witness ==
  Valid /\ pc = "loop" /\ iters >= 2 /\ Len(J) = 2 /\ Len(posout) >= 1

\* C9: throughout a run on valid input bottom <= top + 1, posout is the
\* outcome space minus the outcomes removed so far and is the ascending range
\* bottom..top; the loop reads no point mass outside 0..n and removes no
\* outcome that is not in posout.
C9_Range ==
  Valid =>
    /\ err \notin {"IndexError", "ValueError"}
    /\ pc \in {"loop", "done"} =>
         /\ bottom <= top + 1
         /\ SeqSet(posout) = (0..n) \ SeqSet(removed)
         /\ posout = [i \in 1..(top - bottom + 1) |-> bottom + i - 1]
         /\ (pc = "loop" /\ LoopCond(p_tail, alpha, den)) =>
              /\ bottom \in 0..n /\ top \in 0..n
              /\ RaisesIn(Cur, pmf) = "none"

\* a run has returned with every outcome removed: bottom = top + 1
C9_Witness == Returned /\ n >= 1 /\ bottom = top + 1 /\ posout = <<>>

\* C10 as stated, on the inputs with N >= 1: every iteration strictly
\* increases p_tail, by the p_J it selected.
C10_Original ==
  [][ (Populated /\ iters' = iters + 1) =>
        p_tail' > p_tail /\ p_tail' = p_tail + p_J' ]_vars

\* C10 amended: for N >= 1, every iteration increases p_tail by exactly the p_J it
\* selected, which is >= 0 (0 for an outcome of mass 0) and > 0 in the final
\* iteration; an iteration runs only while p_tail < alpha, the loop exits at
\* the first iteration after which p_tail >= alpha, and gamma is
\* (p_tail - alpha) / p_J for the final p_J and the cumulative p_tail.
C10_TailGrowth ==
  [][ Populated =>
      /\ (iters' = iters + 1) =>
           /\ p_tail' = p_tail + p_J' /\ p_J' >= 0
           /\ p_tail * AlphaDen < alpha * den
      /\ (pc = "loop" /\ pc' = "done") =>
           /\ p_tail * AlphaDen >= alpha * den
           /\ (p_tail - p_J) * AlphaDen < alpha * den
           /\ p_J > 0
           /\ gamma'.kind = "num"
           /\ gamma'.num * AlphaDen * p_J
              = (p_tail * AlphaDen - alpha * den) * gamma'.dn
    ]_vars

\* an iteration has added p_J = 0 to p_tail and the loop goes on
C10_Witness ==
  Populated /\ pc = "loop" /\ iters >= 1 /\ p_J = 0 /\ LoopCond(p_tail, alpha, den)


====
